---- MODULE Spec2Model ----
(***************************************************************************)
(* Backend of the e-commerce service: the validation middleware            *)
(* (backend/src/middleware/validation.ts), the products router             *)
(* (backend/src/routes/products.ts) and the two variants of the entry      *)
(* point (backend/src/index.ts: "optimistic" and "strict" health check).   *)
(*                                                                         *)
(* Strings are sequences of one-character strings.  Prices are integers    *)
(* in thousandths (19.999 is 19999), so that the two-decimal rounding of   *)
(* the middleware is a real operation.  JavaScript values are records      *)
(* [t, s, n]: t is the typeof-like tag, s the string, n the number.        *)
(***************************************************************************)
EXTENDS Integers, Sequences, FiniteSets, TLC

VARIABLES
    variant,      \* "optimistic" | "strict": which index.ts is deployed
    proc,         \* process phase: "starting" | "listening" | "failed" | "closing" | "exited"
    exitCode,     \* exit code once proc = "exited", -1 before
    startRejected,\* TRUE once the promise returned by start() has rejected
    readyState,   \* mongoose.connection.readyState: 0..3
    store,        \* the products collection, in insertion order
    clock,        \* source of createdAt
    reqs,         \* requests whose handler awaits the store, in arrival order
    last,         \* the request answered most recently (pc "free": none yet)
    fnIn,         \* argument of the function under test (function specifications)
    fnOut         \* its result: [called, value]

vars == <<variant, proc, exitCode, startRejected, readyState, store, clock, reqs, last,
          fnIn, fnOut>>

(***************************************************************************)
(* Bounds of the model.                                                    *)
(***************************************************************************)
MaxLen == 3
MaxQueryLen == 2
MaxInFlight == 2
MaxProducts == 2
MaxListed == 3

(***************************************************************************)
(* Program constants.                                                      *)
(***************************************************************************)
MaxStringLength == 255
MinNameLength == 3
MaxNameLength == 100
MaxPrice == 999999990
MaxContentLength == 1048576
JsonBodyLimit == 102400
MinLimit == 1
MaxLimit == 100
DefaultLimit == 100
DefaultSkip == 0

(***************************************************************************)
(* Strings.                                                                *)
(***************************************************************************)
WhiteSpace == {" "}
AngleBrackets == {"<", ">"}
Quotes == {"'", "\""}

Min(S) == CHOOSE x \in S : \A y \in S : x <= y
Max(S) == CHOOSE x \in S : \A y \in S : x >= y

\* String.prototype.trim
Trim(s) ==
    LET keep == {i \in 1..Len(s) : s[i] \notin WhiteSpace}
    IN  IF keep = {} THEN <<>> ELSE SubSeq(s, Min(keep), Max(keep))

\* String.prototype.replace(/[...]/g, '')
RemoveAll(s, chars) ==
    LET keep(c) == c \notin chars
    IN  SelectSeq(s, keep)

\* String.prototype.substring(0, n)
Substring0(s, n) == IF Len(s) <= n THEN s ELSE SubSeq(s, 1, n)

\* sanitizeString without the removal of quotes
sanitizeStringKeepsQuotes(input) ==
    Substring0(RemoveAll(Trim(input), AngleBrackets), MaxStringLength)

sanitizeString(input) ==
    Substring0(RemoveAll(RemoveAll(Trim(input), AngleBrackets), Quotes), MaxStringLength)

(***************************************************************************)
(* JavaScript values, as the middleware can tell them apart.               *)
(***************************************************************************)
Undefined == [t |-> "undefined", s |-> <<>>, n |-> 0]
Null == [t |-> "null", s |-> <<>>, n |-> 0]
NaN == [t |-> "nan", s |-> <<>>, n |-> 0]
Obj == [t |-> "object", s |-> <<>>, n |-> 0]
Str(s) == [t |-> "string", s |-> s, n |-> 0]
Num(n) == [t |-> "number", s |-> <<>>, n |-> n]
Infinity(sign) == [t |-> "infinity", s |-> <<>>, n |-> sign]
Bool(b) == [t |-> "boolean", s |-> <<>>, n |-> IF b THEN 1 ELSE 0]

\* !v
Falsy(v) ==
    \/ v.t \in {"undefined", "null", "nan"}
    \/ v.t = "string" /\ Len(v.s) = 0
    \/ v.t = "number" /\ v.n = 0
    \/ v.t = "boolean" /\ v.n = 0

\* typeof v === 'string', typeof v === 'number'
IsString(v) == v.t = "string"
IsNumber(v) == v.t \in {"number", "nan", "infinity"}

\* v < k and v > k for a value with typeof 'number' that is not NaN
Less(v, k) == IF v.t = "infinity" THEN v.n < 0 ELSE v.n < k
Greater(v, k) == IF v.t = "infinity" THEN v.n > 0 ELSE v.n > k

(***************************************************************************)
(* Math.round(price * 100) / 100 on thousandths.  Math.round rounds a tie  *)
(* towards +Infinity, but price * 100 is a double product: for the ties    *)
(* below it is just under x.5 (1.005 * 100 = 100.49999999999999) and the   *)
(* result is rounded down.  Prices the model draws that end in 5           *)
(* thousandths and are not listed have a product of x.5 or just above.     *)
(***************************************************************************)
TiesBelowHalf == {1005, 1015, 1025}

RoundPrice(p) ==
    IF p \in TiesBelowHalf THEN (p \div 10) * 10 ELSE ((p + 5) \div 10) * 10

(***************************************************************************)
(* validateProductInput.  A request body is [defined, name, price];        *)
(* reading a property of an undefined body throws, which the handler's     *)
(* catch turns into the generic rejection.  The outcome is                 *)
(* [status, error, next, body]: status 0 when no response was sent, next   *)
(* whether next() was called, body the request body afterwards.            *)
(***************************************************************************)
Body(name, price) == [defined |-> TRUE, name |-> name, price |-> price]
UndefinedBody == [defined |-> FALSE, name |-> Undefined, price |-> Undefined]
EmptyBody == Body(Undefined, Undefined)

Reject(code, msg, body) == [status |-> code, error |-> msg, next |-> FALSE, body |-> body]
CallNext(body) == [status |-> 0, error |-> "", next |-> TRUE, body |-> body]

\* the name rules with the maximum length tested with >=
NameErrorExclusiveMax(name) ==
    LET sanitizedName == sanitizeString(name.s)
    IN  IF Falsy(name) THEN "Product name is required"
        ELSE IF ~IsString(name) THEN "Product name must be a string"
        ELSE IF Len(sanitizedName) = 0 THEN "Product name cannot be empty"
        ELSE IF Len(sanitizedName) < MinNameLength
             THEN "Product name must be at least 3 characters"
        ELSE IF Len(sanitizedName) >= MaxNameLength
             THEN "Product name must not exceed 100 characters"
        ELSE ""

\* the price rules with the lower bound tested with <=
PriceErrorPositiveOnly(price) ==
    IF price.t \in {"undefined", "null"} THEN "Product price is required"
    ELSE IF ~IsNumber(price) THEN "Product price must be a number"
    ELSE IF price.t = "nan" THEN "Product price must be a valid number"
    ELSE IF Less(price, 1) THEN "Product price must be non-negative"
    ELSE IF Greater(price, MaxPrice) THEN "Product price exceeds maximum allowed value"
    ELSE ""

\* the normalized body keeping the price as submitted
NormalizedNameOnly(body) == Body(Str(sanitizeString(body.name.s)), body.price)

\* the name rules, in the handler's order: the message of the first rule
\* the name fails, "" when it passes them all
NameError(name) ==
    LET sanitizedName == sanitizeString(name.s)
    IN  IF Falsy(name) THEN "Product name is required"
        ELSE IF ~IsString(name) THEN "Product name must be a string"
        ELSE IF Len(sanitizedName) = 0 THEN "Product name cannot be empty"
        ELSE IF Len(sanitizedName) < MinNameLength
             THEN "Product name must be at least 3 characters"
        ELSE IF Len(sanitizedName) > MaxNameLength
             THEN "Product name must not exceed 100 characters"
        ELSE ""

\* the price rules, likewise
PriceError(price) ==
    IF price.t \in {"undefined", "null"} THEN "Product price is required"
    ELSE IF ~IsNumber(price) THEN "Product price must be a number"
    ELSE IF price.t = "nan" THEN "Product price must be a valid number"
    ELSE IF Less(price, 0) THEN "Product price must be non-negative"
    ELSE IF Greater(price, MaxPrice) THEN "Product price exceeds maximum allowed value"
    ELSE ""

\* req.body.name = sanitizedName; req.body.price = sanitizedPrice
Normalized(body) == Body(Str(sanitizeString(body.name.s)), Num(RoundPrice(body.price.n)))

\* validateProductInput without the try/catch: the TypeError of the
\* destructuring reaches the default error handler, which answers 500 with
\* the text of the error
validateProductInputNoCatch(body) ==
    IF ~body.defined
    THEN Reject(500, "TypeError: Cannot destructure property 'name' of 'req.body'", body)
    ELSE IF NameError(body.name) # "" THEN Reject(400, NameError(body.name), body)
    ELSE IF PriceError(body.price) # "" THEN Reject(400, PriceError(body.price), body)
    ELSE CallNext(Normalized(body))

\* validateProductInput with the price rules ahead of the name rules
validateProductInputPriceFirst(body) ==
    IF ~body.defined THEN Reject(400, "Invalid request data", body)
    ELSE IF PriceError(body.price) # "" THEN Reject(400, PriceError(body.price), body)
    ELSE IF NameError(body.name) # "" THEN Reject(400, NameError(body.name), body)
    ELSE CallNext(Normalized(body))

\* validateProductInput with the return after a price rejection left out:
\* the 400 is sent and the handler goes on to next()
validateProductInputNoReturn(body) ==
    IF ~body.defined THEN Reject(400, "Invalid request data", body)
    ELSE IF NameError(body.name) # "" THEN Reject(400, NameError(body.name), body)
    ELSE IF PriceError(body.price) # ""
         THEN [status |-> 400, error |-> PriceError(body.price), next |-> TRUE,
               body |-> Normalized(body)]
    ELSE CallNext(Normalized(body))

validateProductInput(body) ==
    IF ~body.defined THEN Reject(400, "Invalid request data", body)
    ELSE IF NameError(body.name) # "" THEN Reject(400, NameError(body.name), body)
    ELSE IF PriceError(body.price) # "" THEN Reject(400, PriceError(body.price), body)
    ELSE CallNext(Normalized(body))

(***************************************************************************)
(* limitRequestSize.  contentLength is the declared content-length, or -1  *)
(* when the request carries no such header.                                *)
(***************************************************************************)
NoContentLength == -1

limitRequestSize(contentLength, body) ==
    IF contentLength # NoContentLength /\ contentLength > MaxContentLength
    THEN Reject(413, "Request payload too large", body)
    ELSE CallNext(body)

(***************************************************************************)
(* parseInt(string) with no radix, and Number.prototype.toString.          *)
(* The result of parseInt is [nan, n].                                     *)
(***************************************************************************)
DigitValue(c) ==
    CASE c = "0" -> 0 [] c = "1" -> 1 [] c = "2" -> 2 [] c = "3" -> 3 [] c = "4" -> 4
      [] c = "5" -> 5 [] c = "6" -> 6 [] c = "7" -> 7 [] c = "8" -> 8 [] c = "9" -> 9
      [] c \in {"a", "A"} -> 10 [] c \in {"b", "B"} -> 11 [] c \in {"c", "C"} -> 12
      [] c \in {"d", "D"} -> 13 [] c \in {"e", "E"} -> 14 [] c \in {"f", "F"} -> 15
      [] OTHER -> 99

DropLeading(s, chars) ==
    LET keep == {i \in 1..Len(s) : s[i] \notin chars}
    IN  IF keep = {} THEN <<>> ELSE SubSeq(s, Min(keep), Len(s))

\* the longest prefix of s made of digits of the radix
DigitPrefix(s, radix) ==
    LET ok == {k \in 0..Len(s) : \A i \in 1..k : DigitValue(s[i]) < radix}
    IN  SubSeq(s, 1, Max(ok))

RECURSIVE DigitsToInt(_, _)
DigitsToInt(ds, radix) ==
    IF Len(ds) = 0 THEN 0
    ELSE DigitsToInt(SubSeq(ds, 1, Len(ds) - 1), radix) * radix + DigitValue(ds[Len(ds)])

\* A number parseInt returns is [nan, n, e]: NaN, or the integer n * 10^e.
\* e is 0 except for a number of more than MaxPlainDigits digits, which is
\* kept as its first digit and the count of digits after it; the digits
\* after the first are zeros in every such string the model draws.
MaxPlainDigits == 21

NotANumber == [nan |-> TRUE, n |-> 0, e |-> 0]
Integer(n) == [nan |-> FALSE, n |-> n, e |-> 0]
Big(d, e) == [nan |-> FALSE, n |-> d, e |-> e]

\* x < k, x > k and x >= k for a number x that is not NaN and a small
\* integer k
Below(x, k) == IF x.e > 0 THEN x.n < 0 ELSE x.n < k
Above(x, k) == IF x.e > 0 THEN x.n > 0 ELSE x.n > k
AtLeast(x, k) == ~Below(x, k)

\* the digits after the sign and the radix prefix
ParseDigits(sign, s, radix) ==
    LET ds == DigitPrefix(s, radix)
    IN  IF Len(ds) = 0 THEN NotANumber
        ELSE IF radix = 10 /\ Len(DropLeading(ds, {"0"})) > MaxPlainDigits
        THEN Big(sign * DigitValue(DropLeading(ds, {"0"})[1]),
                 Len(DropLeading(ds, {"0"})) - 1)
        ELSE Integer(sign * DigitsToInt(ds, radix))

\* a leading 0x or 0X selects radix 16
ParsePrefixed(sign, s) ==
    IF Len(s) >= 2 /\ s[1] = "0" /\ s[2] \in {"x", "X"}
    THEN ParseDigits(sign, SubSeq(s, 3, Len(s)), 16)
    ELSE ParseDigits(sign, s, 10)

\* an optional sign
ParseSigned(s) ==
    IF Len(s) > 0 /\ s[1] \in {"+", "-"}
    THEN ParsePrefixed(IF s[1] = "-" THEN -1 ELSE 1, Tail(s))
    ELSE ParsePrefixed(1, s)

parseInt(v) ==
    IF ~IsString(v) THEN NotANumber ELSE ParseSigned(DropLeading(v.s, WhiteSpace))

DecimalDigit(d) == SubSeq(<<"0", "1", "2", "3", "4", "5", "6", "7", "8", "9">>, d + 1, d + 1)

RECURSIVE NatToString(_)
NatToString(n) ==
    IF n < 10 THEN DecimalDigit(n) ELSE NatToString(n \div 10) \o DecimalDigit(n % 10)

IntToString(n) == IF n < 0 THEN <<"-">> \o NatToString(-n) ELSE NatToString(n)

\* Number.prototype.toString: decimal digits below 10^21, exponent notation
\* from there on
NumberToString(x) ==
    IF x.e > 0 THEN IntToString(x.n) \o <<"e", "+">> \o NatToString(x.e)
    ELSE IntToString(x.n)

(***************************************************************************)
(* validatePaginationParams.  A query is [limit, skip], each Undefined or  *)
(* a string.  The outcome is [status, error, next, query].                 *)
(***************************************************************************)
Query(limit, skip) == [limit |-> limit, skip |-> skip]

RejectQuery(msg, query) == [status |-> 400, error |-> msg, next |-> FALSE, query |-> query]

\* validatePaginationParams without the return after a rejected limit: the
\* 400 is sent and the middleware goes on to next()
PaginationOutcomeNoReturn(query, limitNum, skipNum) ==
    LET q1 == IF query.limit.t # "undefined"
              THEN [query EXCEPT !.limit = Str(NumberToString(limitNum))]
              ELSE query
    IN  IF query.limit.t # "undefined"
           /\ (limitNum.nan \/ Below(limitNum, MinLimit) \/ Above(limitNum, MaxLimit))
        THEN [status |-> 400, error |-> "Invalid limit parameter. Must be between 1 and 100",
              next |-> TRUE, query |-> q1]
        ELSE IF query.skip.t # "undefined" /\ (skipNum.nan \/ Below(skipNum, 0))
        THEN RejectQuery("Invalid skip parameter. Must be non-negative", q1)
        ELSE [status |-> 0, error |-> "", next |-> TRUE, query |-> q1]

\* the checks on the parsed numbers, and the write-back of limitNum.toString()
\* and skipNum.toString()
PaginationOutcome(query, limitNum, skipNum) ==
    LET q1 == IF query.limit.t # "undefined"
              THEN [query EXCEPT !.limit = Str(NumberToString(limitNum))]
              ELSE query
        q2 == IF query.skip.t # "undefined"
              THEN [q1 EXCEPT !.skip = Str(NumberToString(skipNum))]
              ELSE q1
    IN  IF query.limit.t # "undefined"
           /\ (limitNum.nan \/ Below(limitNum, MinLimit) \/ Above(limitNum, MaxLimit))
        THEN RejectQuery("Invalid limit parameter. Must be between 1 and 100", query)
        ELSE IF query.skip.t # "undefined" /\ (skipNum.nan \/ Below(skipNum, 0))
        THEN RejectQuery("Invalid skip parameter. Must be non-negative", q1)
        ELSE [status |-> 0, error |-> "", next |-> TRUE, query |-> q2]

validatePaginationParams(query) ==
    PaginationOutcome(query, parseInt(query.limit), parseInt(query.skip))

\* k || d
OrDefault(k, d) == IF k.nan \/ k = Integer(0) THEN Integer(d) ELSE k

\* parseInt(x) || d
ParseIntOr(v, d) == OrDefault(parseInt(v), d)

\* the limit and skip the GET handler hands to the query
ListArgs(query) ==
    [limit |-> ParseIntOr(query.limit, DefaultLimit),
     skip |-> ParseIntOr(query.skip, DefaultSkip)]

(***************************************************************************)
(* The products collection.  A product is [name, price, createdAt]; save() *)
(* appends the document built from the request body, with the next         *)
(* timestamp.                                                              *)
(***************************************************************************)
Product(body, now) == [name |-> body.name.s, price |-> body.price.n, createdAt |-> now]

SaveProduct(coll, body, now) == Append(coll, Product(body, now))

RECURSIVE SortByCreatedAtDesc(_)
SortByCreatedAtDesc(coll) ==
    IF Len(coll) = 0 THEN <<>>
    ELSE LET newest == CHOOSE i \in 1..Len(coll) :
                           \A j \in 1..Len(coll) :
                               \/ coll[j].createdAt < coll[i].createdAt
                               \/ coll[j].createdAt = coll[i].createdAt /\ i <= j
             rest == [k \in 1..(Len(coll) - 1) |-> IF k < newest THEN coll[k] ELSE coll[k + 1]]
         IN  <<coll[newest]>> \o SortByCreatedAtDesc(rest)

\* the query applying limit before skip
FindProductsLimitFirst(coll, limit, skip) ==
    LET sorted == SortByCreatedAtDesc(coll)
        limited == IF AtLeast(limit, Len(sorted)) THEN sorted ELSE SubSeq(sorted, 1, limit.n)
    IN  IF AtLeast(skip, Len(limited)) THEN <<>>
        ELSE SubSeq(limited, skip.n + 1, Len(limited))

\* ProductModel.find().sort({createdAt: -1}).limit(limit).skip(skip).lean()
FindProducts(coll, limit, skip) ==
    LET sorted == SortByCreatedAtDesc(coll)
        skipped == IF AtLeast(skip, Len(sorted)) THEN <<>>
                   ELSE SubSeq(sorted, skip.n + 1, Len(sorted))
    IN  IF AtLeast(limit, Len(skipped)) THEN skipped ELSE SubSeq(skipped, 1, limit.n)

(***************************************************************************)
(* Health check of the two entry points.                                   *)
(***************************************************************************)
Disconnected == 0
Connected == 1
Connecting == 2
Disconnecting == 3

\* the optimistic health check reporting ok only when connected
HealthOptimisticChecksState(state) ==
    [status |-> 200, ok |-> state = Connected,
     database |-> IF state = Connected THEN "connected" ELSE "disconnected"]

\* the strict health check taking every state but Disconnected as healthy
HealthStrictNotDisconnected(state) ==
    LET isHealthy == state # Disconnected
    IN  [status |-> IF isHealthy THEN 200 ELSE 503, ok |-> isHealthy,
         database |-> IF state = Connected THEN "connected" ELSE "disconnected"]

HealthOptimistic(state) ==
    [status |-> 200, ok |-> TRUE,
     database |-> IF state = Connected THEN "connected" ELSE "disconnected"]

HealthStrict(state) ==
    LET isHealthy == state = Connected
    IN  [status |-> IF isHealthy THEN 200 ELSE 503, ok |-> isHealthy,
         database |-> IF state = Connected THEN "connected" ELSE "disconnected"]

Health(v, state) == IF v = "optimistic" THEN HealthOptimistic(state) ELSE HealthStrict(state)

(***************************************************************************)
(* Requests.  An input is what the client sends; a request record adds     *)
(* what the server did with it: ran is the sequence of middleware and      *)
(* handlers that ran for it, status/error/result/ok/database the response  *)
(* (status 0: none yet), body and query the request object as the route    *)
(* handler saw it, limit and skip the arguments of the store query, saves  *)
(* and finds the number of store calls issued for it, closing whether it   *)
(* arrived after a termination signal, bodyRead whether the JSON parser    *)
(* read its body, dbState the readyState the health handler read.          *)
(***************************************************************************)
Input(method, path, json, contentLength, rawBody, rawQuery) ==
    [method |-> method, path |-> path, json |-> json, contentLength |-> contentLength,
     rawBody |-> rawBody, rawQuery |-> rawQuery]

NoQuery == Query(Undefined, Undefined)

FreeSlot ==
    [pc |-> "free", method |-> "", path |-> "", json |-> FALSE,
     contentLength |-> NoContentLength, rawBody |-> EmptyBody, rawQuery |-> NoQuery,
     ran |-> <<>>, status |-> 0, error |-> "", body |-> EmptyBody, query |-> NoQuery,
     limit |-> Integer(0), skip |-> Integer(0), result |-> <<>>, ok |-> FALSE, database |-> "",
     saves |-> 0, finds |-> 0, closing |-> FALSE, bodyRead |-> FALSE, dbState |-> -1]

Received(in, closing) ==
    [FreeSlot EXCEPT !.pc = "received", !.method = in.method, !.path = in.path,
                     !.json = in.json, !.contentLength = in.contentLength,
                     !.rawBody = in.rawBody, !.rawQuery = in.rawQuery,
                     !.body = in.rawBody, !.query = in.rawQuery, !.closing = closing]

Respond(r, by, status, error) ==
    [r EXCEPT !.pc = "done", !.ran = Append(r.ran, by), !.status = status, !.error = error]

(***************************************************************************)
(* express.json() with its default options: a request that declares a JSON *)
(* body longer than the parser's limit is refused by the parser (413), a   *)
(* shorter one is parsed into req.body; a request without a JSON body is   *)
(* passed on unparsed, req.body being {} or undefined depending on the     *)
(* parser's version (unparsed).                                            *)
(***************************************************************************)
expressJson(in, unparsed) ==
    IF in.json
    THEN IF in.contentLength # NoContentLength /\ in.contentLength > JsonBodyLimit
         THEN Reject(413, "request entity too large", unparsed)
         ELSE CallNext(in.rawBody)
    ELSE CallNext(unparsed)

(***************************************************************************)
(* The routes registered in start().                                       *)
(***************************************************************************)
\* the POST handler after its middleware's outcome v, up to await p.save()
PostHandler(r, v) ==
    LET r1 == [r EXCEPT !.ran = Append(r.ran, "validateProductInput"), !.body = v.body,
                        !.status = v.status, !.error = v.error]
    IN  IF ~v.next
        THEN [r1 EXCEPT !.pc = "done"]
        ELSE [r1 EXCEPT !.pc = "awaiting_save", !.ran = Append(r1.ran, "postHandler"),
                        !.saves = r1.saves + 1]

\* router.post('/', validateProductInput, handler)
PostProducts(r) == PostHandler(r, validateProductInput(r.body))

\* the GET handler after its middleware's outcome v, up to await find();
\* query is req.query as the handler reads it
GetHandler(r, v, query) ==
    LET r1 == [r EXCEPT !.ran = Append(r.ran, "validatePaginationParams"), !.query = query,
                        !.status = v.status, !.error = v.error]
        args == ListArgs(query)
    IN  IF ~v.next
        THEN [r1 EXCEPT !.pc = "done"]
        ELSE [r1 EXCEPT !.pc = "awaiting_find", !.ran = Append(r1.ran, "getHandler"),
                        !.limit = args.limit, !.skip = args.skip, !.finds = r1.finds + 1]

\* req.query after the middleware assigned to its properties.  Where
\* req.query is a property of the request (Express 4) the assignments are
\* kept; where it is a getter that parses the URL at each access
\* (Express 5) they are lost and the handler reads the query as sent.
GetQueried(r, v, queryKept) == GetHandler(r, v, IF queryKept THEN v.query ELSE r.query)

\* router.get('/', validatePaginationParams, handler)
GetProducts(r, queryKept) == GetQueried(r, validatePaginationParams(r.query), queryKept)

\* the health handler answering from the connection state as it was when
\* the route was registered, right after connectDB() resolved
GetHealthCached(r, v, state) ==
    LET h == Health(v, Connected)
    IN  [r EXCEPT !.pc = "done", !.ran = Append(r.ran, "health"), !.status = h.status,
                  !.ok = h.ok, !.database = h.database, !.dbState = Connected]

\* app.get('/api/health', ...)
GetHealth(r, v, state) ==
    LET h == Health(v, state)
    IN  [r EXCEPT !.pc = "done", !.ran = Append(r.ran, "health"), !.status = h.status,
                  !.ok = h.ok, !.database = h.database, !.dbState = state]

Routes(r, v, state, queryKept) ==
    IF r.path = "/api/products" /\ r.method = "POST" THEN PostProducts(r)
    ELSE IF r.path = "/api/products" /\ r.method = "GET" THEN GetProducts(r, queryKept)
    ELSE IF r.path = "/api/health" /\ r.method = "GET" THEN GetHealth(r, v, state)
    ELSE Respond(r, "notFound", 404, "")

(***************************************************************************)
(* The middleware chain of each entry point, in registration order, run    *)
(* for one request until it is answered or its handler awaits the store.   *)
(* The optimistic entry point registers express.json() and then            *)
(* limitRequestSize; the strict one registers no size guard.               *)
(***************************************************************************)
UsesSizeGuard(v) == v = "optimistic"

Dispatch(v, in, unparsed, state, closing, queryKept) ==
    LET r0 == Received(in, closing)
        j == expressJson(in, unparsed)
        r1 == [r0 EXCEPT !.ran = Append(r0.ran, "expressJson"), !.body = j.body,
                         !.bodyRead = in.json /\ j.next]
        g == limitRequestSize(in.contentLength, j.body)
        r2 == IF UsesSizeGuard(v)
              THEN [r1 EXCEPT !.ran = Append(r1.ran, "limitRequestSize")]
              ELSE r1
    IN  IF ~j.next THEN [r1 EXCEPT !.pc = "done", !.status = j.status, !.error = j.error]
        ELSE IF UsesSizeGuard(v) /\ ~g.next
        THEN [r2 EXCEPT !.pc = "done", !.status = g.status, !.error = g.error]
        ELSE Routes(r2, v, state, queryKept)

(***************************************************************************)
(* The requests the environment sends.                                     *)
(***************************************************************************)
\* declared content lengths: a small body, and twice the size guard's limit
SmallLength == 8 * 8
TwoMegabytes == 2 * MaxContentLength

CreateInput(body) == Input("POST", "/api/products", TRUE, SmallLength, body, NoQuery)
ListInput(query) == Input("GET", "/api/products", FALSE, NoContentLength, EmptyBody, query)
HealthInput == Input("GET", "/api/health", FALSE, NoContentLength, EmptyBody, NoQuery)

ValidBody == Body(Str(<<"a", "b", "c">>), Num(19999))

ServerInputs ==
    { CreateInput(ValidBody),
      CreateInput(Body(Str(<<"<", " ", "a", "b">>), Num(5000))),
      CreateInput(Body(Str(<<"a", "b", "c">>), Num(-1000))),
      Input("POST", "/api/products", TRUE, TwoMegabytes, ValidBody, NoQuery),
      Input("POST", "/api/products", FALSE, TwoMegabytes, ValidBody, NoQuery),
      ListInput(NoQuery),
      ListInput(Query(Str(<<"0">>), Undefined)),
      HealthInput }

(***************************************************************************)
(* State of the server.                                                    *)
(***************************************************************************)
InFlight == 1..Len(reqs)

RemoveAt(s, i) == [k \in 1..(Len(s) - 1) |-> IF k < i THEN s[k] ELSE s[k + 1]]

ServerInit ==
    /\ variant \in {"optimistic", "strict"}
    /\ proc = "starting"
    /\ exitCode = -1
    /\ startRejected = FALSE
    /\ readyState = Connecting
    /\ store = <<>>
    /\ clock = 1
    /\ reqs = <<>>
    /\ last = FreeSlot

FnIdle ==
    /\ fnIn = <<>>
    /\ fnOut = [called |-> FALSE, value |-> <<>>]

Init == ServerInit /\ FnIdle

(***************************************************************************)
(* start(): await connectDB(), then register the routes and listen.        *)
(***************************************************************************)
ConnectDBResolves ==
    /\ proc = "starting"
    /\ proc' = "listening"
    /\ readyState' = Connected
    /\ UNCHANGED <<variant, exitCode, startRejected, store, clock, reqs, last, fnIn, fnOut>>

\* start() is called without a catch: its rejection is an unhandled rejection.
\* The strict entry point installs an 'unhandledRejection' listener that only
\* logs; the optimistic one installs none, and the runtime ends the process
\* with code 1.
ConnectDBRejects ==
    /\ proc = "starting"
    /\ startRejected' = TRUE
    /\ readyState' = Disconnected
    /\ IF variant = "strict"
       THEN proc' = "failed" /\ exitCode' = exitCode
       ELSE proc' = "exited" /\ exitCode' = 1
    /\ UNCHANGED <<variant, store, clock, reqs, last, fnIn, fnOut>>

(***************************************************************************)
(* The connection, as the driver moves it while the process runs.          *)
(***************************************************************************)
ConnectionEvent ==
    /\ proc \in {"listening", "failed"}
    /\ \/ readyState = Connected /\ readyState' = Disconnected
       \/ readyState = Disconnected /\ readyState' = Connecting
       \/ readyState = Connecting /\ readyState' \in {Connected, Disconnected}
    /\ UNCHANGED <<variant, proc, exitCode, startRejected, store, clock, reqs, last,
                   fnIn, fnOut>>

(***************************************************************************)
(* One request: the synchronous run of the middleware chain and the route  *)
(* handler up to its first await.  A request answered in that run becomes  *)
(* last; one whose handler awaits the store joins reqs.                    *)
(***************************************************************************)
IsCreate(in) == in.method = "POST" /\ in.path = "/api/products"

PendingSaves == Cardinality({i \in InFlight : reqs[i].pc = "awaiting_save"})

HandleRequest(inputs, capacity) ==
    /\ proc \in {"listening", "closing"}
    /\ Len(reqs) < MaxInFlight
    /\ \E in \in inputs, unparsed \in {EmptyBody, UndefinedBody}, queryKept \in BOOLEAN :
          LET r == Dispatch(variant, in, unparsed, readyState, proc = "closing", queryKept)
          IN  /\ IsCreate(in) => Len(store) + PendingSaves < capacity
              /\ IF r.pc = "done"
                 THEN last' = r /\ reqs' = reqs
                 ELSE last' = last /\ reqs' = Append(reqs, r)
    /\ UNCHANGED <<variant, proc, exitCode, startRejected, readyState, store, clock,
                   fnIn, fnOut>>

\* save() persisting the body of the oldest request in flight, as a body
\* held in a variable shared by the requests would be
SaveResolvesSharedBody ==
    /\ proc \in {"listening", "closing"}
    /\ readyState \in {Connected, Disconnecting}
    /\ \E i \in InFlight :
          /\ reqs[i].pc = "awaiting_save"
          /\ store' = SaveProduct(store, reqs[1].body, clock)
          /\ clock' = clock + 1
          /\ last' = [Respond(reqs[i], "saved", 201, "") EXCEPT
                        !.result = <<Product(reqs[1].body, clock)>>]
          /\ reqs' = RemoveAt(reqs, i)
    /\ UNCHANGED <<variant, proc, exitCode, startRejected, readyState, fnIn, fnOut>>

\* await p.save() resolves: 201 with the saved document
SaveResolves ==
    /\ proc \in {"listening", "closing"}
    /\ readyState \in {Connected, Disconnecting}
    /\ \E i \in InFlight :
          /\ reqs[i].pc = "awaiting_save"
          /\ store' = SaveProduct(store, reqs[i].body, clock)
          /\ clock' = clock + 1
          /\ last' = [Respond(reqs[i], "saved", 201, "") EXCEPT
                        !.result = <<Product(reqs[i].body, clock)>>]
          /\ reqs' = RemoveAt(reqs, i)
    /\ UNCHANGED <<variant, proc, exitCode, startRejected, readyState, fnIn, fnOut>>

\* a rejected save() issued again for the same request
SaveRejectsAndRetries ==
    /\ proc \in {"listening", "closing"}
    /\ \E i \in InFlight :
          /\ reqs[i].pc = "awaiting_save"
          /\ reqs[i].saves < 2
          /\ reqs' = [reqs EXCEPT ![i].saves = @ + 1]
          /\ last' = last
    /\ UNCHANGED <<variant, proc, exitCode, startRejected, readyState, store, clock,
                   fnIn, fnOut>>

\* await p.save() rejects: caught, 500 {error: 'server error'}
SaveRejects ==
    /\ proc \in {"listening", "closing"}
    /\ \E i \in InFlight :
          /\ reqs[i].pc = "awaiting_save"
          /\ last' = Respond(reqs[i], "saveFailed", 500, "server error")
          /\ reqs' = RemoveAt(reqs, i)
    /\ UNCHANGED <<variant, proc, exitCode, startRejected, readyState, store, clock,
                   fnIn, fnOut>>

\* await find() resolves: 200 with the list
FindResolves ==
    /\ proc \in {"listening", "closing"}
    /\ readyState \in {Connected, Disconnecting}
    /\ \E i \in InFlight :
          /\ reqs[i].pc = "awaiting_find"
          /\ last' = [Respond(reqs[i], "found", 200, "") EXCEPT
                        !.result = FindProducts(store, reqs[i].limit, reqs[i].skip)]
          /\ reqs' = RemoveAt(reqs, i)
    /\ UNCHANGED <<variant, proc, exitCode, startRejected, readyState, store, clock,
                   fnIn, fnOut>>

\* await find() rejects: caught, 500 {error: 'server error'}
FindRejects ==
    /\ proc \in {"listening", "closing"}
    /\ \E i \in InFlight :
          /\ reqs[i].pc = "awaiting_find"
          /\ last' = Respond(reqs[i], "findFailed", 500, "server error")
          /\ reqs' = RemoveAt(reqs, i)
    /\ UNCHANGED <<variant, proc, exitCode, startRejected, readyState, store, clock,
                   fnIn, fnOut>>

(***************************************************************************)
(* Termination signals.  The strict entry point runs gracefulShutdown:     *)
(* it awaits mongoose.connection.close() and then calls process.exit(0);   *)
(* the HTTP server is never closed.  The optimistic entry point installs   *)
(* no handler, and the signal ends the process at once.                    *)
(***************************************************************************)
SignalNumber(signal) == IF signal = "SIGINT" THEN 2 ELSE 15

Signal ==
    /\ proc \in {"listening", "failed"}
    /\ \E signal \in {"SIGTERM", "SIGINT"} :
          IF variant = "strict"
          THEN /\ proc' = "closing"
               /\ readyState' = IF readyState = Disconnected THEN Disconnected
                                ELSE Disconnecting
               /\ exitCode' = exitCode
          ELSE /\ proc' = "exited"
               /\ exitCode' = 128 + SignalNumber(signal)
               /\ readyState' = readyState
    /\ UNCHANGED <<variant, startRejected, store, clock, reqs, last, fnIn, fnOut>>

\* gracefulShutdown after its await: close() resolved or rejected, then exit(0)
gracefulShutdown ==
    /\ proc = "closing"
    /\ \E closed \in BOOLEAN :
          readyState' = IF closed THEN Disconnected ELSE readyState
    /\ proc' = "exited"
    /\ exitCode' = 0
    /\ UNCHANGED <<variant, startRejected, store, clock, reqs, last, fnIn, fnOut>>

Next ==
    \/ ConnectDBResolves
    \/ ConnectDBRejects
    \/ ConnectionEvent
    \/ HandleRequest(ServerInputs, MaxProducts)
    \/ SaveResolves
    \/ SaveRejects
    \/ FindResolves
    \/ FindRejects
    \/ Signal
    \/ gracefulShutdown

Spec == Init /\ [][Next]_vars

(***************************************************************************)
(* The server with a client that creates products and lists them, the     *)
(* store answering every call.                                             *)
(***************************************************************************)
ListingInputs ==
    { CreateInput(ValidBody),
      ListInput(NoQuery),
      ListInput(Query(Str(<<"1">>), Undefined)),
      ListInput(Query(Undefined, Str(<<"1">>))),
      ListInput(Query(Str(<<"1">>), Str(<<"1">>))) }

NextList ==
    \/ ConnectDBResolves
    \/ HandleRequest(ListingInputs, MaxListed)
    \/ SaveResolves
    \/ FindResolves

SpecList == Init /\ [][NextList]_vars


(***************************************************************************)
(* Function specifications: one function of the middleware applied to an   *)
(* argument drawn from a bounded set, the server left as started.          *)
(***************************************************************************)
NotCalled == [called |-> FALSE, value |-> <<>>]
Called(value) == [called |-> TRUE, value |-> value]

FnServer == ServerInit /\ variant = "optimistic"

Alphabet == {" ", "<", "'", "a"}
Strings(alphabet, n) == UNION {[1..k -> alphabet] : k \in 0..n}
Pad(n) == [i \in 1..n |-> "a"]

\* sanitizeString: short strings, and the same after a run of letters that
\* brings them to the name limit and to the truncation limit
PadLengths == {0, MaxNameLength - 2, MaxStringLength - 2}

SanitizeInputs ==
    {Pad(n) \o s : n \in PadLengths, s \in Strings(Alphabet \cup {">", "\""}, MaxLen)}

InitSanitize == FnServer /\ fnIn \in SanitizeInputs /\ fnOut = NotCalled

CallSanitize ==
    /\ ~fnOut.called
    /\ fnOut' = Called(sanitizeString(fnIn))
    /\ UNCHANGED <<fnIn, variant, proc, exitCode, startRejected, readyState, store, clock,
                   reqs, last>>

\* the sanitized string is submitted again
SanitizeAgain ==
    /\ fnOut.called
    /\ fnIn' = fnOut.value
    /\ fnOut' = NotCalled
    /\ UNCHANGED <<variant, proc, exitCode, startRejected, readyState, store, clock,
                   reqs, last>>

NextSanitize == CallSanitize \/ SanitizeAgain

SpecSanitize == InitSanitize /\ [][NextSanitize]_vars

\* POST /api/products from validateProductInput on, for any req.body
NameValues ==
    {Undefined, Null, Num(0), Num(5000), Bool(FALSE), Bool(TRUE), Obj}
        \cup {Str(Pad(n) \o s) : n \in {0, MaxNameLength - 2}, s \in Strings(Alphabet, MaxLen)}
        \cup {Str(Pad(n)) : n \in {MaxStringLength, MaxStringLength + 1}}

PriceValues ==
    {Undefined, Null, NaN, Str(<<"5">>), Bool(TRUE), Obj, Infinity(1), Infinity(-1),
     Num(-1000), Num(-1), Num(0), Num(4), Num(5), Num(1005), Num(2344), Num(19999),
     Num(MaxPrice - 5), Num(MaxPrice), Num(MaxPrice + 1), Num(1000000000)}

ValidateBodies ==
    {UndefinedBody} \cup {Body(name, price) : name \in NameValues, price \in PriceValues}

InitValidate == FnServer /\ fnIn \in ValidateBodies /\ fnOut = NotCalled

CallValidate ==
    /\ ~fnOut.called
    /\ fnOut' = Called(PostProducts(Received(CreateInput(fnIn), FALSE)))
    /\ UNCHANGED <<fnIn, variant, proc, exitCode, startRejected, readyState, store, clock,
                   reqs, last>>

\* the body the handler would persist is submitted as a new create request
ValidateAgain ==
    /\ fnOut.called
    /\ fnOut.value.pc = "awaiting_save"
    /\ fnIn' = fnOut.value.body
    /\ fnOut' = NotCalled
    /\ UNCHANGED <<variant, proc, exitCode, startRejected, readyState, store, clock,
                   reqs, last>>

NextValidate == CallValidate \/ ValidateAgain

SpecValidate == InitValidate /\ [][NextValidate]_vars

\* GET /api/products from validatePaginationParams on, for any req.query
QueryAlphabet == {"0", "1", "9", "a", ".", "-", " "}

\* 10^21, the least integer toString writes in exponent notation
TenToThe21 == <<"1">> \o [i \in 1..MaxPlainDigits |-> "0"]

LongQueryValues ==
    {Undefined, Str(TenToThe21), Str(<<"1", "0", "0">>), Str(<<"1", "0", "1">>),
     Str(<<"1", "0", "a", "b", "c">>),
     Str(<<"0", "x", "1", "0">>), Str(<<"+", "5">>), Str(<<"1", ".", "5">>), Str(<<"a", "b", "c">>)}

QueryValues == LongQueryValues \cup {Str(s) : s \in Strings(QueryAlphabet, MaxQueryLen)}

PaginationQueries ==
    {Query(l, Undefined) : l \in QueryValues}
        \cup {Query(Undefined, s) : s \in QueryValues}
        \cup {Query(l, s) : l \in LongQueryValues, s \in LongQueryValues}

InitPagination == FnServer /\ fnIn \in PaginationQueries /\ fnOut = NotCalled

CallPagination ==
    /\ ~fnOut.called
    /\ \E queryKept \in BOOLEAN :
          fnOut' = Called(GetProducts(Received(ListInput(fnIn), FALSE), queryKept))
    /\ UNCHANGED <<fnIn, variant, proc, exitCode, startRejected, readyState, store, clock,
                   reqs, last>>

\* the query as the middleware rewrote it is submitted again
PaginationAgain ==
    /\ fnOut.called
    /\ fnOut.value.pc = "awaiting_find"
    /\ fnIn' = fnOut.value.query
    /\ fnOut' = NotCalled
    /\ UNCHANGED <<variant, proc, exitCode, startRejected, readyState, store, clock,
                   reqs, last>>

NextPagination == CallPagination \/ PaginationAgain

SpecPagination == InitPagination /\ [][NextPagination]_vars

(***************************************************************************)
(* The gateway in front of the backend: it answers GET /health itself and  *)
(* forwards every request under /api to the backend, relaying the answer.  *)
(* fnIn is the request the gateway answered itself, fnOut its answer       *)
(* [status, ok, upstream, reachable]: upstream whether the backend was     *)
(* contacted for it, reachable whether the backend accepted connections.   *)
(* A forwarded request that reaches the backend is a request of the        *)
(* backend (HandleRequest).                                                *)
(***************************************************************************)
\* the backend accepts connections once app.listen() ran, until it exits
Reachable == proc \in {"listening", "closing"}

GatewayHealthInput == Input("GET", "/health", FALSE, NoContentLength, EmptyBody, NoQuery)

UpstreamUnavailable == {502, 503}

\* the gateway's health answer asking the backend first
GatewayHealthAsksBackend(reachable) ==
    [status |-> IF reachable THEN 200 ELSE 503, ok |-> reachable, upstream |-> TRUE,
     reachable |-> reachable]

GatewayHealth(reachable) ==
    [status |-> 200, ok |-> TRUE, upstream |-> FALSE, reachable |-> reachable]

ForwardFailure(status) ==
    [status |-> status, ok |-> FALSE, upstream |-> TRUE, reachable |-> FALSE]

GatewayHealthRequest ==
    /\ fnIn' = GatewayHealthInput
    /\ fnOut' = Called(GatewayHealth(Reachable))
    /\ UNCHANGED <<variant, proc, exitCode, startRejected, readyState, store, clock,
                   reqs, last>>

\* a request under /api while the backend refuses connections
ForwardFails ==
    /\ ~Reachable
    /\ \E in \in ServerInputs, status \in UpstreamUnavailable :
          /\ fnIn' = in
          /\ fnOut' = Called(ForwardFailure(status))
    /\ UNCHANGED <<variant, proc, exitCode, startRejected, readyState, store, clock,
                   reqs, last>>

NextGateway ==
    \/ ConnectDBResolves
    \/ ConnectDBRejects
    \/ ConnectionEvent
    \/ HandleRequest({HealthInput, ListInput(Query(Str(<<"0">>), Undefined))}, MaxProducts)
    \/ Signal
    \/ gracefulShutdown
    \/ GatewayHealthRequest
    \/ ForwardFails

SpecGateway == Init /\ [][NextGateway]_vars


(***************************************************************************)
(* Properties.                                                             *)
(***************************************************************************)
Range(s) == {s[i] : i \in 1..Len(s)}

Requests == Range(reqs) \cup {last}

\* C1: every persisted product would be accepted again by
\* validateProductInput if its stored name and price were submitted as a
\* new create request.
C1_PersistedProductRevalidates ==
    \A i \in 1..Len(store) :
        validateProductInput(Body(Str(store[i].name), Num(store[i].price))).next

\* C2: sanitizeString is idempotent: sanitizing a sanitized string gives
\* the same string.
C2_SanitizeIdempotent ==
    fnOut.called => sanitizeString(fnOut.value) = fnOut.value

\* C3: when gracefulShutdown ends the process, no request is left in flight
\* without a response.
C3_NoRequestDroppedByShutdown ==
    (proc = "exited" /\ variant = "strict") => reqs = <<>>


\* C4: a create request that validateProductInput answers with 400 never
\* reaches the store: its handler does not run, save() is not called for
\* it, and the step that rejects it leaves the persisted products as they
\* were.
RejectedByValidation(r) == r.status = 400 /\ "validateProductInput" \in Range(r.ran)

C4_RejectedCreateNeverReachesStore ==
    /\ [](\A r \in Requests :
             RejectedByValidation(r) =>
                 r.pc = "done" /\ r.saves = 0 /\ "postHandler" \notin Range(r.ran))
    /\ [][(last' # last /\ RejectedByValidation(last')) =>
              (store' = store /\ reqs' = reqs)]_vars

C4_Witness ==
    /\ RejectedByValidation(last)
    /\ last.pc = "done"
    /\ Len(store) > 0

\* C5: a request whose declared content-length exceeds 1,048,576 is
\* answered 413 'Request payload too large' by limitRequestSize, and the
\* JSON body parser has neither read its body nor answered it first.
C5_SizeGuardAnswersBeforeParser ==
    \A r \in Requests :
        (r.pc # "free" /\ r.contentLength > MaxContentLength) =>
            /\ r.status = 413
            /\ r.error = "Request payload too large"
            /\ r.ran[Len(r.ran)] = "limitRequestSize"
            /\ ~r.bodyRead

\* C6: a supplied limit or skip that is not an integer literal is rejected
\* with 400 and the store is not queried.
IsIntegerLiteral(v) ==
    /\ IsString(v)
    /\ LET digits == IF Len(v.s) > 0 /\ v.s[1] \in {"+", "-"} THEN Tail(v.s) ELSE v.s
       IN  Len(digits) > 0 /\ \A i \in 1..Len(digits) : DigitValue(digits[i]) < 10

C6_NonIntegerParameterRejected ==
    (/\ fnOut.called
     /\ \E v \in {fnIn.limit, fnIn.skip} : v.t # "undefined" /\ ~IsIntegerLiteral(v))
        => (fnOut.value.status = 400 /\ fnOut.value.pc = "done" /\ fnOut.value.finds = 0)

\* C7: the strict health check answers 200 with ok:true exactly when the
\* connection state it reads is Connected, and 503 with ok:false for
\* Disconnected, Connecting and Disconnecting.
HealthAnswer(r) == r.pc = "done" /\ r.path = "/api/health" /\ r.method = "GET"

C7_StrictHealthFollowsConnection ==
    (variant = "strict" /\ HealthAnswer(last)) =>
        IF last.dbState = Connected
        THEN last.status = 200 /\ last.ok
        ELSE last.status = 503 /\ ~last.ok

C7_Witness ==
    /\ variant = "strict"
    /\ HealthAnswer(last)
    /\ last.dbState = Connecting
    /\ last.status = 503

C9_StartupFaultExitsWithOne ==
    startRejected => (proc = "exited" /\ exitCode = 1)

\* C10: validateProductInput answers with the message of the first rule, in
\* the order name-required, name-is-string, name-not-empty, name-min-length,
\* name-max-length, price-required, price-is-number, price-not-NaN,
\* price-non-negative, price-max, that the request fails, and accepts the
\* request when it fails none.
RuleFails(k, body) ==
    LET name == body.name
        price == body.price
        length == Len(sanitizeString(name.s))
        comparable == IsNumber(price) /\ price.t # "nan"
    IN  CASE k = 1 -> Falsy(name)
          [] k = 2 -> ~IsString(name)
          [] k = 3 -> IsString(name) /\ length = 0
          [] k = 4 -> IsString(name) /\ length < MinNameLength
          [] k = 5 -> IsString(name) /\ length > MaxNameLength
          [] k = 6 -> price.t \in {"undefined", "null"}
          [] k = 7 -> ~IsNumber(price)
          [] k = 8 -> price.t = "nan"
          [] k = 9 -> comparable /\ Less(price, 0)
          [] k = 10 -> comparable /\ Greater(price, MaxPrice)

RuleMessage(k) ==
    CASE k = 1 -> "Product name is required"
      [] k = 2 -> "Product name must be a string"
      [] k = 3 -> "Product name cannot be empty"
      [] k = 4 -> "Product name must be at least 3 characters"
      [] k = 5 -> "Product name must not exceed 100 characters"
      [] k = 6 -> "Product price is required"
      [] k = 7 -> "Product price must be a number"
      [] k = 8 -> "Product price must be a valid number"
      [] k = 9 -> "Product price must be non-negative"
      [] k = 10 -> "Product price exceeds maximum allowed value"

FailedRules(body) == {k \in 1..10 : RuleFails(k, body)}

C11_EmptyNameCannotBeEmpty ==
    (/\ fnOut.called
     /\ fnIn.defined
     /\ IsString(fnIn.name)
     /\ Len(sanitizeString(fnIn.name.s)) = 0)
        => /\ fnOut.value.pc = "done"
           /\ fnOut.value.status = 400
           /\ fnOut.value.error = "Product name cannot be empty"

\* C12: a create request whose name is present (neither undefined nor null)
\* and not a string, the number 0 and the boolean false included, is
\* rejected with 'Product name must be a string'.
C12_NonStringNameMustBeString ==
    (/\ fnOut.called
     /\ fnIn.defined
     /\ fnIn.name.t \notin {"undefined", "null", "string"})
        => /\ fnOut.value.pc = "done"
           /\ fnOut.value.status = 400
           /\ fnOut.value.error = "Product name must be a string"

\* C13: the body the POST handler receives from validateProductInput holds
\* sanitizeString(raw name) and the rounded price, and the product it
\* persists and returns holds exactly those values.
HoldsNormalized(raw, name, price) ==
    /\ name = sanitizeString(raw.name.s)
    /\ price = RoundPrice(raw.price.n)

C13_PersistedProductIsNormalized ==
    \A r \in Requests :
        /\ "postHandler" \in Range(r.ran)
              => /\ r.body.name.t = "string" /\ r.body.price.t = "number"
                 /\ HoldsNormalized(r.rawBody, r.body.name.s, r.body.price.n)
        /\ "saved" \in Range(r.ran)
              => /\ Len(r.result) = 1
                 /\ HoldsNormalized(r.rawBody, r.result[1].name, r.result[1].price)
                 /\ r.result[1] \in Range(store)

C13_Witness ==
    /\ "saved" \in Range(last.ran)
    /\ last.rawBody.name.s # last.result[1].name
    /\ \E i \in 1..Len(store) :
          /\ store[i].price = RoundPrice(ValidBody.price.n)
          /\ store[i].price # ValidBody.price.n

\* C14: every accepted price is normalized to the nearest multiple of 0.01,
\* a tie going up, and no normalized price exceeds 999999.99.
HalfUp(p) == ((p + 5) \div 10) * 10

C14_PriceRoundedHalfUp ==
    (fnOut.called /\ fnOut.value.pc = "awaiting_save")
        => /\ fnOut.value.body.price.n = HalfUp(fnIn.price.n)
           /\ fnOut.value.body.price.n <= MaxPrice

\* C15: with a valid name, a create request passes the price rules exactly
\* when price is a number, not NaN, with 0 <= price <= 999999.99; an absent
\* or null price is rejected with 'Product price is required'.
ValidName(name) ==
    /\ IsString(name)
    /\ Len(sanitizeString(name.s)) >= MinNameLength
    /\ Len(sanitizeString(name.s)) <= MaxNameLength

ValidPrice(price) == price.t = "number" /\ price.n >= 0 /\ price.n <= MaxPrice

Accepted(r) == r.pc = "awaiting_save" /\ r.status = 0

Rejected(r, msg) == r.pc = "done" /\ r.status = 400 /\ r.error = msg /\ r.saves = 0

C15_PriceAcceptedInRange ==
    (fnOut.called /\ fnIn.defined /\ ValidName(fnIn.name))
        => /\ Accepted(fnOut.value) <=> ValidPrice(fnIn.price)
           /\ ~ValidPrice(fnIn.price) => fnOut.value.pc = "done" /\ fnOut.value.status = 400
           /\ fnIn.price.t \in {"undefined", "null"}
                 => Rejected(fnOut.value, "Product price is required")

C15_Witness ==
    /\ fnOut.called
    /\ ValidName(fnIn.name)
    /\ fnIn.price = Num(0)
    /\ Accepted(fnOut.value)

\* C16: with a valid price, a create request with a string name passes the
\* name rules exactly when the sanitized name has 3 to 100 characters; 1 or
\* 2 characters are rejected as too short and 101 to 255 as too long.
C16_NameAcceptedByLength ==
    (fnOut.called /\ fnIn.defined /\ ValidPrice(fnIn.price) /\ IsString(fnIn.name))
        => LET length == Len(sanitizeString(fnIn.name.s))
           IN  /\ Accepted(fnOut.value) <=> (length >= 3 /\ length <= 100)
               /\ length \in {1, 2}
                     => Rejected(fnOut.value, "Product name must be at least 3 characters")
               /\ length > 100
                     => /\ length <= 255
                        /\ Rejected(fnOut.value,
                                    "Product name must not exceed 100 characters")

C16_Witness ==
    /\ fnOut.called
    /\ ValidPrice(fnIn.price)
    /\ IsString(fnIn.name)
    /\ Len(fnIn.name.s) > 100
    /\ Len(sanitizeString(fnIn.name.s)) = 100
    /\ Accepted(fnOut.value)

\* C17: for every string, sanitizeString returns a string without '<',
\* '>', single and double quotes, of at most 255 characters.
C17_SanitizedHasNoMarkupAndIsShort ==
    fnOut.called
        => /\ Range(fnOut.value) \cap {"<", ">", "'", "\""} = {}
           /\ Len(fnOut.value) <= 255

C17_Witness ==
    /\ fnOut.called
    /\ Range(fnIn) \cap {"<", ">"} # {}
    /\ Range(fnIn) \cap {"'", "\""} # {}
    /\ Len(fnIn) > 255
    /\ Len(fnOut.value) < Len(fnIn)

\* C18: for integer-valued limit and skip, GET /api/products is accepted
\* exactly when 1 <= limit <= 100 and skip >= 0 and rejected with 400
\* otherwise; an omitted limit is 100 and an omitted skip 0; the limit and
\* skip handed to the store are the validated values.
LiteralValue(v) ==
    LET negative == v.s[1] = "-"
        digits == IF v.s[1] \in {"+", "-"} THEN Tail(v.s) ELSE v.s
        significant == DropLeading(digits, {"0"})
        sign == IF negative THEN -1 ELSE 1
    IN  IF Len(significant) > 21
        THEN Big(sign * DigitValue(significant[1]), Len(significant) - 1)
        ELSE Integer(sign * DigitsToInt(digits, 10))

IntegerValued(v) == v.t = "undefined" \/ IsIntegerLiteral(v)

ValueOr(v, d) == IF v.t = "undefined" THEN Integer(d) ELSE LiteralValue(v)

C18_PaginationAcceptedInRange ==
    (fnOut.called /\ IntegerValued(fnIn.limit) /\ IntegerValued(fnIn.skip))
        => LET limit == ValueOr(fnIn.limit, 100)
               skip == ValueOr(fnIn.skip, 0)
               inRange == /\ AtLeast(limit, 1) /\ ~Above(limit, 100)
                          /\ AtLeast(skip, 0)
           IN  IF inRange
               THEN /\ fnOut.value.pc = "awaiting_find"
                    /\ fnOut.value.finds = 1
                    /\ fnOut.value.limit = limit
                    /\ fnOut.value.skip = skip
               ELSE /\ fnOut.value.pc = "done"
                    /\ fnOut.value.status = 400
                    /\ fnOut.value.finds = 0

\* C19: GET /api/products answers 200 with the persisted products in
\* descending order of createdAt, without the first skip of them and at
\* most limit of the rest; an empty store gives an empty list.
Newer(p) == Cardinality({j \in 1..Len(store) : store[j].createdAt > p.createdAt})

Listed(r) == r.pc = "done" /\ "found" \in Range(r.ran)

Remaining(skip) ==
    IF AtLeast(skip, Len(store)) THEN 0 ELSE Len(store) - skip.n

C19_ListNewestFirst ==
    Listed(last)
        => /\ last.status = 200
           /\ Len(last.result) =
                  IF AtLeast(last.limit, Remaining(last.skip))
                  THEN Remaining(last.skip) ELSE last.limit.n
           /\ \A k \in 1..Len(last.result) :
                  /\ last.result[k] \in Range(store)
                  /\ Newer(last.result[k]) = last.skip.n + k - 1

C19_Witness ==
    /\ Listed(last)
    /\ last.rawQuery = NoQuery
    /\ Len(store) = 3
    /\ last.result = <<store[3], store[2], store[1]>>
    /\ store[1].createdAt < store[2].createdAt
    /\ store[2].createdAt < store[3].createdAt

\* C20: when p.save() rejects, the request is answered 500 with
\* {error: 'server error'} and nothing else, nothing is persisted for it,
\* and save() is called once per request, never again.
SaveFailed(r) == "saveFailed" \in Range(r.ran)

C20_SaveFaultIsOpaqueAndNotRetried ==
    /\ [](\A r \in Requests :
             /\ r.saves <= 1
             /\ SaveFailed(r)
                   => /\ r.pc = "done"
                      /\ r.status = 500
                      /\ r.error = "server error"
                      /\ r.result = <<>>
                      /\ r.saves = 1)
    /\ [][(last' # last /\ SaveFailed(last'))
              => (store' = store /\ Len(reqs') = Len(reqs) - 1)]_vars

C20_Witness ==
    /\ SaveFailed(last)
    /\ last.status = 500
    /\ last.saves = 1
    /\ readyState = Connected

\* C21: a create request whose req.body is undefined when
\* validateProductInput reads it is answered 400 'Invalid request data' and
\* nothing else; next() is not called and nothing is saved for it.
FaultInValidation(r) == "validateProductInput" \in Range(r.ran) /\ ~r.body.defined

C21_ValidationFaultIsGeneric ==
    \A r \in Requests :
        FaultInValidation(r)
            => /\ r.pc = "done"
               /\ r.status = 400
               /\ r.error = "Invalid request data"
               /\ r.result = <<>>
               /\ "postHandler" \notin Range(r.ran)
               /\ r.saves = 0

C21_Witness ==
    /\ FaultInValidation(last)
    /\ last.status = 400
    /\ last.method = "POST"
    /\ ~last.json

\* C22: a request whose declared content-length exceeds 1,048,576 is
\* answered 413 before validateProductInput or validatePaginationParams
\* runs, with no 400 and no store access.
C22_OversizedAnsweredBeforeValidation ==
    \A r \in Requests :
        (r.pc # "free" /\ r.contentLength > MaxContentLength)
            => /\ r.pc = "done"
               /\ r.status = 413
               /\ Range(r.ran) \cap {"validateProductInput", "validatePaginationParams"} = {}
               /\ r.saves = 0
               /\ r.finds = 0

\* C23: while the backend is unreachable, the gateway's GET /health answers
\* 200 {ok: true} without contacting the backend, and a request under /api
\* is answered 502 or 503, never with a 400-class status.
C23_GatewayHealthIndependent ==
    (fnOut.called /\ ~fnOut.value.reachable)
        => IF fnIn.path = "/health"
           THEN fnOut.value.status = 200 /\ fnOut.value.ok /\ ~fnOut.value.upstream
           ELSE /\ fnOut.value.status \in {502, 503}
                /\ ~(fnOut.value.status >= 400 /\ fnOut.value.status < 500)

C23_Witness ==
    /\ fnOut.called
    /\ fnIn.path = "/health"
    /\ ~fnOut.value.reachable
    /\ fnOut.value.status = 200
    /\ proc = "exited"
    /\ store = <<>>

\* C24: whatever the interleaving of the create requests in flight, the
\* store changes only by the product of one accepted request whose save()
\* succeeded, holding the normalized name and price of that request, and
\* every request answered 201 has added its own product.
OwnProduct(r, p) ==
    /\ p.name = sanitizeString(r.rawBody.name.s)
    /\ p.price = RoundPrice(r.rawBody.price.n)

SavedBy(i) ==
    /\ reqs[i].pc = "awaiting_save"
    /\ Len(store') = Len(store) + 1
    /\ SubSeq(store', 1, Len(store)) = store
    /\ OwnProduct(reqs[i], store'[Len(store')])
    /\ reqs' = RemoveAt(reqs, i)
    /\ last'.status = 201
    /\ last'.rawBody = reqs[i].rawBody
    /\ last'.result = <<store'[Len(store')]>>

C24_ConcurrentCreatesIndependent ==
    [][/\ store' # store => \E i \in 1..Len(reqs) : SavedBy(i)
       /\ (last' # last /\ last'.status = 201) => \E i \in 1..Len(reqs) : SavedBy(i)]_vars

C24_Witness ==
    /\ Len(reqs) > 0
    /\ reqs[1].pc = "awaiting_save"
    /\ last.status = 201
    /\ last.rawBody # reqs[1].rawBody
    /\ Len(store) > 0
    /\ OwnProduct(last, store[Len(store)])
    /\ ~OwnProduct(reqs[1], store[Len(store)])

\* C25: after SIGTERM or SIGINT no request that arrives is dispatched to a
\* route handler, and the store connection starts closing only once no
\* request is accepted any more.
C25_NoRequestAcceptedAfterSignal ==
    /\ \A r \in Requests : r.pc # "free" => ~r.closing
    /\ (readyState = Disconnecting /\ proc # "exited")
           => ~ENABLED HandleRequest(ServerInputs, MaxProducts)

\* C26: the product routes are registered and served while connectDB() has
\* not yet resolved, so a request can be dispatched to them in that time.
C26_RoutesServeWhileConnecting ==
    proc = "starting" => ENABLED HandleRequest(ServerInputs, MaxProducts)

\* C27: every GET /api/health answer is computed from the connection state
\* at the moment the request is handled, and handling it leaves the
\* connection state and the persisted products unchanged.
C27_HealthReadsCurrentState ==
    [][(last' # last /\ HealthAnswer(last'))
          => /\ last'.dbState = readyState
             /\ (last'.database = "connected") <=> (readyState = Connected)
             /\ variant = "strict" => (last'.ok <=> (readyState = Connected))
             /\ readyState' = readyState
             /\ store' = store]_vars

C27_Witness ==
    /\ HealthAnswer(last)
    /\ last.dbState = Disconnected
    /\ last.database = "disconnected"
    /\ proc = "listening"
    /\ Len(store) > 0

\* C28: validateProductInput, validatePaginationParams and limitRequestSize
\* each either answer the request (400 or 413) without calling next(), or
\* call next() without answering; no request is answered by the validation
\* stage and handed to the route handler as well.
Middleware == {"validateProductInput", "validatePaginationParams", "limitRequestSize"}

Handlers == {"postHandler", "getHandler", "health"}

C28_MiddlewareAnswersOrPasses ==
    \A r \in Requests :
        /\ r.pc \in {"awaiting_save", "awaiting_find"} => r.status = 0
        /\ (r.pc = "done" /\ r.ran[Len(r.ran)] \in Middleware)
              => /\ r.status \in {400, 413}
                 /\ Range(r.ran) \cap Handlers = {}
                 /\ r.saves = 0
                 /\ r.finds = 0
        /\ Cardinality(Range(r.ran)) = Len(r.ran)

C28_Witness ==
    /\ Len(reqs) > 0
    /\ reqs[1].pc = "awaiting_find"
    /\ reqs[1].status = 0
    /\ last.pc = "done"
    /\ last.status = 400
    /\ last.ran[Len(last.ran)] = "validatePaginationParams"

====
